---- MODULE Spec2Model ----
(***************************************************************************)
(* Model of the disaster-preparedness RAG pipeline:                        *)
(*   process_embeddings.py  DocumentProcessor, QdrantManager, main         *)
(*   app.py                 DisasterRAGApp, the query handling             *)
(* Texts are sequences of one-character strings; offsets are 0-based as in *)
(* the Python source, sequences are 1-based as in TLA+.                    *)
(***************************************************************************)
EXTENDS Integers, Sequences, FiniteSets, TLC

----------------------------------------------------------------------------
(* Bounds of the model *)

\* Iterations of the chunk_text loop explored for a call that never leaves it.
MaxIter == 6
\* Documents in the data file read by main.
MaxDocs == 2
\* Calls a caller of QdrantManager makes.
MaxCalls == 3
\* Queries entered in the app.
MaxQueries == 1

----------------------------------------------------------------------------
(* Program constants *)

\* self.chunk_size, self.overlap set in DocumentProcessor.__init__
DefaultChunkSize == 500
DefaultOverlap == 50
\* the length a chunk must exceed to be returned by chunk_text
MinChunkLen == 50
\* RETRIEVER_K of app.py
RETRIEVER_K == 5

----------------------------------------------------------------------------
(* Python helpers *)

Max2(a, b) == IF a >= b THEN a ELSE b
Min2(a, b) == IF a <= b THEN a ELSE b

\* Index normalisation of s[a:b]: a negative index counts from the end, and
\* both ends are clamped into 0..len(s).  Result is the pair <<lo, hi>>.
SliceBounds(n, a, b) ==
    LET norm(i) == IF i < 0 THEN Max2(i + n, 0) ELSE Min2(i, n)
    IN  <<norm(a), norm(b)>>

\* s[a:b]
PySlice(s, a, b) ==
    LET lh == SliceBounds(Len(s), a, b)
    IN  IF lh[1] < lh[2] THEN SubSeq(s, lh[1] + 1, lh[2]) ELSE <<>>

\* s.rfind(c): the highest 0-based offset of c in s, or -1
RFind(s, c) ==
    LET hits == {i \in 1..Len(s) : s[i] = c}
    IN  IF hits = {} THEN -1
        ELSE (CHOOSE i \in hits : \A j \in hits : j <= i) - 1

IsSpace(c) == c = " "

\* number of whitespace characters at the start of s, counted from offset i
RECURSIVE LeadingFrom(_, _)
LeadingFrom(s, i) ==
    IF i > Len(s) \/ ~IsSpace(s[i]) THEN i - 1 ELSE LeadingFrom(s, i + 1)

LeadingSpaces(s) == LeadingFrom(s, 1)

\* number of whitespace characters at the end of s, counted back from i
RECURSIVE TrailingFrom(_, _)
TrailingFrom(s, i) ==
    IF i < 1 \/ ~IsSpace(s[i]) THEN Len(s) - i ELSE TrailingFrom(s, i - 1)

\* an all-whitespace string is consumed from the left
TrailingSpaces(s) ==
    IF LeadingSpaces(s) = Len(s) THEN 0 ELSE TrailingFrom(s, Len(s))

\* s.strip()
Strip(s) == SubSeq(s, LeadingSpaces(s) + 1, Len(s) - TrailingSpaces(s))

\* Chunk sizes n (multiples of 10 up to 1000) at which the IEEE-754 double
\* product n * 0.7 is below the exact value 7n/10, so that the comparison
\* last_sentence_end > chunk_size * 0.7 already holds at 7n/10 itself.
RoundsBelow == {90, 170, 180, 330, 340, 350, 360,
                650, 660, 670, 680, 690, 700, 710, 720, 730}

\* last_sentence_end > chunk_size * 0.7, the float comparison of line 49
PastThreshold(last_sentence_end, chunk_size) ==
    \/ 10 * last_sentence_end > 7 * chunk_size
    \/ /\ 10 * last_sentence_end = 7 * chunk_size
       /\ chunk_size \in RoundsBelow

----------------------------------------------------------------------------
(* DocumentProcessor.chunk_text, one loop iteration as pure operators *)

\* max(last_period, last_exclaim, last_question)
LastSentenceEnd(chunk) ==
    Max2(RFind(chunk, "."), Max2(RFind(chunk, "!"), RFind(chunk, "?")))

\* The chunk of the window starting at start, before strip (lines 39-50).
RawChunk(txt, start, chunk_size) ==
    LET end   == start + chunk_size
        chunk == PySlice(txt, start, end)
    IN  IF end < Len(txt) /\ PastThreshold(LastSentenceEnd(chunk), chunk_size)
        THEN SubSeq(chunk, 1, Min2(LastSentenceEnd(chunk) + 1, Len(chunk)))
        ELSE chunk

\* start = end - overlap (line 55)
NextStart(start, chunk_size, ovl) == (start + chunk_size) - ovl

\* The span <<lo, hi>> (0-based, half open) of the text that the stripped
\* chunk of the window at start is a copy of.
ChunkSpan(txt, start, chunk_size) ==
    LET raw == RawChunk(txt, start, chunk_size)
        lo  == SliceBounds(Len(txt), start, start + chunk_size)[1]
    IN  IF Len(Strip(raw)) = 0 THEN <<lo, lo>>
        ELSE <<lo + LeadingSpaces(raw), lo + Len(raw) - TrailingSpaces(raw)>>

\* (mutant) a filter that drops only empty chunks
KeepsNonEmpty(chunk) == Len(Strip(chunk)) > 0

\* the filter of line 61: len(chunk.strip()) > 50
Keeps(chunk) == Len(Strip(chunk)) > MinChunkLen

\* [chunk for chunk in chunks if len(chunk.strip()) > 50]
FilterShort(cs) == SelectSeq(cs, Keeps)


\* chunk_text as a function, for callers that pass valid parameters
RECURSIVE ChunkLoop(_, _, _, _, _)
ChunkLoop(txt, size, ovl, st, acc) ==
    IF ~(st < Len(txt)) THEN acc
    ELSE LET acc2 == Append(acc, Strip(RawChunk(txt, st, size)))
             st2  == NextStart(st, size, ovl)
         IN  IF st2 >= Len(txt) THEN acc2
             ELSE ChunkLoop(txt, size, ovl, st2, acc2)

ChunkText(txt, size, ovl) == FilterShort(ChunkLoop(txt, size, ovl, 0, <<>>))

----------------------------------------------------------------------------
(* Inputs of chunk_text explored by the model *)

Fill(n) == [i \in 1..n |-> "a"] \o <<>>

\* A text of n letters in which every offset of P that leaves room for it
\* holds the sentence terminator t followed by a space.
TextWith(n, P, t) ==
    [i \in 1..n |-> IF (i - 1) \in P THEN t
                    ELSE IF (i - 2) \in P THEN " "
                    ELSE "a"] \o <<>>

\* "Prepare a kit. Store water. Have a plan."
KitText == <<"P", "r", "e", "p", "a", "r", "e", " ", "a", " ", "k", "i", "t", ".", " ", "S", "t", "o", "r", "e", " ", "w", "a", "t", "e", "r", ".", " ", "H", "a", "v", "e", " ", "a", " ", "p", "l", "a", "n", ".">>

TextLens == {0, 40, 70, 120, 130}
TermOffsets == {42, 43, 55, 62, 63, 100}
Terminators == {".", "!", "?"}

Texts ==
    {TextWith(n, {}, ".") : n \in TextLens}
      \cup {TextWith(n, {p}, t) : n \in TextLens, p \in TermOffsets, t \in Terminators}
      \cup {TextWith(n, {p, q}, ".") : n \in TextLens, p \in TermOffsets, q \in TermOffsets}

\* (chunk_size, overlap) pairs: valid ones, and overlap >= chunk_size
SizePairs == {<<60, 0>>, <<60, 10>>, <<90, 0>>, <<90, 10>>, <<50, 0>>,
              <<60, 60>>, <<60, 70>>}

\* texts shorter than the window, chunked with an overlap that is valid
\* (overlap < chunk_size) but leaves a step shorter than the text
ShortTextCalls == {<<t, 90, 75>> : t \in {s \in Texts : Len(s) <= 70}}

ChunkCalls ==
    {<<t, p[1], p[2]>> : t \in Texts, p \in SizePairs}
      \cup {<<KitText, 20, 5>>, <<KitText, DefaultChunkSize, DefaultOverlap>>}
      \cup ShortTextCalls

\* the contract of the chunker: size > 0 and 0 <= overlap < size
ValidParams(size, ovl) == size > 0 /\ 0 <= ovl /\ ovl < size


----------------------------------------------------------------------------
(* Documents, embeddings and points *)

DocFields == {"url", "title", "content", "source", "scraped_date", "type"}

\* a record of the scraped data file
MkDoc(u, ti, c) ==
    [url |-> u, title |-> ti, content |-> c, source |-> "FEMA",
     scraped_date |-> "2024-01-01", type |-> "disaster_preparedness"]

\* two windows with the default parameters; the first is cut at a sentence end
DocA == MkDoc(<<"u">>, "A", TextWith(600, {400}, "."))
\* one window
DocB == MkDoc(<<"u", "#", "0">>, "B", Fill(120))
\* the 40-character document: no chunk survives the length filter
DocKit == MkDoc(<<"k">>, "Kit", KitText)
\* malformed records
DocNoTitle ==
    [url |-> <<"t">>, content |-> Fill(100), source |-> "FEMA",
     scraped_date |-> "2024-01-01", type |-> "disaster_preparedness"]
DocNoContent ==
    [url |-> <<"c">>, title |-> "C", source |-> "FEMA",
     scraped_date |-> "2024-01-01", type |-> "disaster_preparedness"]
\* a document indexed by an earlier run
DocOld == MkDoc(<<"o">>, "Old", Fill(80))

DocPool == {DocA, DocB, DocKit, DocNoTitle, DocNoContent}

\* str(i) for i >= 0, as a sequence of characters
DigitChar(d) == <<"0", "1", "2", "3", "4", "5", "6", "7", "8", "9">>[d + 1]

RECURSIVE Digits(_)
Digits(i) == IF i < 10 THEN <<DigitChar(i)>>
             ELSE Digits(i \div 10) \o <<DigitChar(i % 10)>>

\* (mutant) the key without the chunk index
UrlOnlyKey(url, i) == url \o <<"#">>

\* point_id_string = f"{doc['url']}#{i}" in _upload_chunks_local
PointIdStringLocal(url, i) == url \o <<"#">> \o Digits(i)

\* point_id_string = f"{doc['url']}#{i}" in _upload_chunks_qdrant
PointIdStringQdrant(url, i) == url \o <<"#">> \o Digits(i)

\* str(uuid.uuid5(uuid.NAMESPACE_URL, name)): a hash of the name, taken to
\* be free of collisions
Uuid5(name) == <<"uuid5", name>>

\* model.encode of one text: a vector that is a function of the text alone
Embed(t) == <<Len(t) % 384>>

\* the fields of doc read while a point is built
PayloadFields == {"title", "source", "scraped_date", "type", "url"}

\* (mutant) chunk indexes counted from 1
PayloadOneBased(doc, chunk, i, n, key) ==
    [content |-> chunk, title |-> doc["title"], source |-> doc["source"],
     scraped_date |-> doc["scraped_date"], type |-> doc["type"],
     url |-> doc["url"], chunk_index |-> i + 1, total_chunks |-> n,
     original_id |-> key]

\* the payload of a point, the same in both upload paths
Payload(doc, chunk, i, n, key) ==
    [content |-> chunk, title |-> doc["title"], source |-> doc["source"],
     scraped_date |-> doc["scraped_date"], type |-> doc["type"],
     url |-> doc["url"], chunk_index |-> i, total_chunks |-> n,
     original_id |-> key]

\* point_data of _upload_chunks_local for the i-th (0-based) chunk
LocalPoint(doc, cs, embeddings, i) ==
    LET key == PointIdStringLocal(doc["url"], i)
    IN  [id |-> Uuid5(key), vector |-> embeddings[i + 1],
         payload |-> Payload(doc, cs[i + 1], i, Len(cs), key)]

\* the PointStruct of _upload_chunks_qdrant for the i-th (0-based) chunk
QdrantPoint(doc, cs, embeddings, i) ==
    LET key == PointIdStringQdrant(doc["url"], i)
    IN  [id |-> Uuid5(key), vector |-> embeddings[i + 1],
         payload |-> Payload(doc, cs[i + 1], i, Len(cs), key)]

\* enumerate(zip(chunks, embeddings)) stops at the shorter list
ZipLen(cs, embeddings) == Min2(Len(cs), Len(embeddings))

LocalPoints(doc, cs, embeddings) ==
    [k \in 1..ZipLen(cs, embeddings) |-> LocalPoint(doc, cs, embeddings, k - 1)]

QdrantPoints(doc, cs, embeddings) ==
    [k \in 1..ZipLen(cs, embeddings) |-> QdrantPoint(doc, cs, embeddings, k - 1)]

\* DocumentProcessor.create_embeddings when the model answers
CreateEmbeddings(texts) == [k \in 1..Len(texts) |-> Embed(texts[k])]

\* the remote service's upsert: a point replaces the stored point of its id
RECURSIVE Upsert(_, _)
Upsert(stored, points) ==
    IF points = <<>> THEN stored
    ELSE Upsert({q \in stored : q.id # Head(points).id} \cup {Head(points)},
                Tail(points))

\* processor.chunk_text(doc["content"]): the processor's defaults are used
DefaultChunks(doc) ==
    ChunkText(doc["content"], DefaultChunkSize, DefaultOverlap)

\* what earlier runs may have left behind
OldChunks == DefaultChunks(DocOld)
OldLocalPoints == LocalPoints(DocOld, OldChunks, CreateEmbeddings(OldChunks))
OldQdrantPoints == QdrantPoints(DocOld, OldChunks, CreateEmbeddings(OldChunks))

NoFile == [exists |-> FALSE, points |-> <<>>]
OldFile == [exists |-> TRUE, points |-> OldLocalPoints]
NoCollection == [exists |-> FALSE, points |-> {}]
OldCollection ==
    [exists |-> TRUE,
     points |-> {OldQdrantPoints[k] : k \in 1..Len(OldQdrantPoints)}]

----------------------------------------------------------------------------
(* State *)

VARIABLES
    \* one call of DocumentProcessor.chunk_text
    text,          \* the argument text
    chunk_size,    \* the argument chunk_size
    overlap,       \* the argument overlap
    start,         \* the local start
    chunks,        \* the local chunks
    spans,         \* for each element of chunks, the span of text it copies
    cpc,           \* position in chunk_text: "idle", "while", "return", "done"
    result,        \* the returned list
    \* the environment
    remoteUp,      \* the Qdrant service answers at its address
    remoteColl,    \* the collection "disaster_prep" on the service
    file,          \* data/embeddings_storage.json
    dataFile,      \* data/scraped_disaster_prep_data.json
    \* QdrantManager
    use_local_storage,
    embeddings_data,
    \* main of process_embeddings.py, or a caller of QdrantManager
    mpc,           \* "start", "create", "loop", "api", "done", "raised"
    documents,
    idx,           \* 1-based position of the loop over documents
    total_chunks,
    exc,           \* the exception the last step raised, or "none"
    created,       \* create_collection has been called on this manager
    upserted,      \* points written by upload_chunks since create_collection
    lastCall,      \* the last QdrantManager method called
    ncalls,        \* calls made by the caller of QdrantManager
    \* DisasterRAGApp and the query handling of app.py
    apc,           \* "idle", "input", "retrieved"
    groq_api_key,  \* GROQ_API_KEY as setup_clients read it
    llm,           \* the attribute self.llm: "unset" or "ChatGroq"
    embedding_model,
    qdrant_client,
    contexts,      \* the value retrieve_context returned
    response,      \* the value generate_response returned, or "none"
    shown,         \* what the page shows for the last query
    llm_invoked,   \* self.llm.invoke was called for the last query
    nqueries

chunkVars == <<text, chunk_size, overlap, start, chunks, spans, cpc, result>>
envVars == <<remoteUp, remoteColl, file, dataFile>>
mgrVars == <<use_local_storage, embeddings_data>>
mainVars == <<mpc, documents, idx, total_chunks>>
callVars == <<exc, created, upserted, lastCall, ncalls>>
appVars == <<apc, groq_api_key, llm, embedding_model, qdrant_client, contexts, response,
             shown, llm_invoked, nqueries>>

vars == <<chunkVars, envVars, mgrVars, mainVars, callVars, appVars>>

\* chunk_text is not being called
ChunkIdle ==
    /\ text = <<>> /\ chunk_size = DefaultChunkSize /\ overlap = DefaultOverlap
    /\ start = 0 /\ chunks = <<>> /\ spans = <<>> /\ cpc = "idle" /\ result = <<>>

\* the app has not been started
AppIdle ==
    /\ apc = "idle" /\ groq_api_key = "absent"
    /\ llm = "unset" /\ embedding_model = "None"
    /\ qdrant_client = "None" /\ contexts = {} /\ response = "none"
    /\ shown = "none" /\ llm_invoked = FALSE /\ nqueries = 0

\* no QdrantManager has been constructed and nothing has been called
NothingCalled ==
    /\ use_local_storage = FALSE /\ embeddings_data = <<>>
    /\ documents = <<>> /\ idx = 1 /\ total_chunks = 0
    /\ exc = "none" /\ created = FALSE /\ upserted = 0
    /\ lastCall = "none" /\ ncalls = 0

----------------------------------------------------------------------------
(* DocumentProcessor.chunk_text as a loop *)

\* entry: chunks = [], start = 0
ChunkEnter(c) ==
    /\ text = c[1] /\ chunk_size = c[2] /\ overlap = c[3]
    /\ start = 0 /\ chunks = <<>> /\ spans = <<>>
    /\ cpc = "while" /\ result = <<>>

\* while start < len(text): one iteration of the body, with its break
ChunkIter ==
    /\ cpc = "while"
    /\ start < Len(text)
    /\ Len(chunks) < MaxIter
    /\ chunks' = Append(chunks, Strip(RawChunk(text, start, chunk_size)))
    /\ spans' = Append(spans, ChunkSpan(text, start, chunk_size))
    /\ start' = NextStart(start, chunk_size, overlap)
    /\ cpc' = IF start' >= Len(text) THEN "return" ELSE "while"
    /\ UNCHANGED <<text, chunk_size, overlap, result>>
    /\ UNCHANGED <<envVars, mgrVars, mainVars, callVars, appVars>>

\* the loop test fails on entry (empty text)
ChunkExit ==
    /\ cpc = "while"
    /\ ~(start < Len(text))
    /\ cpc' = "return"
    /\ UNCHANGED <<text, chunk_size, overlap, start, chunks, spans, result>>
    /\ UNCHANGED <<envVars, mgrVars, mainVars, callVars, appVars>>

\* return [chunk for chunk in chunks if len(chunk.strip()) > 50]
ChunkReturn ==
    /\ cpc = "return"
    /\ result' = FilterShort(chunks)
    /\ cpc' = "done"
    /\ UNCHANGED <<text, chunk_size, overlap, start, chunks, spans>>
    /\ UNCHANGED <<envVars, mgrVars, mainVars, callVars, appVars>>

InitChunk ==
    /\ \E c \in ChunkCalls : ChunkEnter(c)
    /\ remoteUp = FALSE /\ remoteColl = NoCollection /\ file = NoFile
    /\ dataFile = [exists |-> FALSE, docs |-> <<>>]
    /\ mpc = "idle" /\ NothingCalled /\ AppIdle

NextChunk == ChunkIter \/ ChunkExit \/ ChunkReturn

SpecChunk == InitChunk /\ [][NextChunk]_vars

----------------------------------------------------------------------------
(* Properties of chunk_text *)

\* indexes of the windows whose chunk is returned
Returned == {k \in 1..Len(chunks) : Keeps(chunks[k])}

Covered(pos) == \E k \in Returned : spans[k][1] <= pos /\ pos < spans[k][2]

InOrder == \A j \in Returned, k \in Returned : j < k => spans[j][1] < spans[k][1]

\* C1: for every non-empty text and valid (size, overlap), every character
\* position of the text lies in the span of a returned chunk, and the spans
\* of the returned chunks are in increasing position order.
C1_ChunksCoverText ==
    (cpc = "done" /\ Len(text) > 0 /\ ValidParams(chunk_size, overlap))
        => /\ \A pos \in 0..(Len(text) - 1) : Covered(pos)
           /\ InOrder

C11_ShortTextAtMostOneChunk ==
    (cpc = "done" /\ ValidParams(chunk_size, overlap) /\ Len(text) < chunk_size)
        => Len(result) <= 1

\* C12 as stated: on every call, also one passing overlap >= size, each
\* iteration of the loop of chunk_text moves the window start strictly
\* forward (which is what makes the loop terminate).
C12_StartStrictlyIncreases == [][ChunkIter => start' > start]_vars

\* C15 as stated: chunk_text drops exactly the chunks shorter than 50
\* characters (after strip): every returned chunk has at least 50
\* characters, and every window whose chunk has 50 or more is returned.
C15_DropsExactlyBelowFloor ==
    cpc = "done" =>
        /\ \A k \in 1..Len(result) : Len(result[k]) >= MinChunkLen
        /\ \A k \in 1..Len(chunks) :
              Len(chunks[k]) >= MinChunkLen
                  => \E j \in 1..Len(result) : result[j] = chunks[k]

\* C18 as stated: for valid (size, overlap) the k-th window starts at
\* (k - 1) * (size - overlap); the chunk of a window that ends before the
\* end of the text is the prefix of the window up to and including its last
\* '.', '!' or '?' when that offset is strictly greater than 0.7 * size,
\* and the full window otherwise; the chunk of a window that reaches the end
\* of the text is the whole window.
C18_TruncateAtSentenceEnd ==
    (cpc \in {"while", "return", "done"} /\ ValidParams(chunk_size, overlap))
        => /\ start = Len(chunks) * (chunk_size - overlap)
           /\ \A k \in 1..Len(chunks) :
                 LET s      == (k - 1) * (chunk_size - overlap)
                     window == PySlice(text, s, s + chunk_size)
                     last   == LastSentenceEnd(window)
                 IN  chunks[k] =
                        IF s + chunk_size < Len(text) /\ 10 * last > 7 * chunk_size
                        THEN SubSeq(window, 1, last + 1)
                        ELSE window
----------------------------------------------------------------------------
(* QdrantManager *)

\* Each method is given as the set of its outcomes from a manager state:
\* ed is embeddings_data, rc the remote collection, f the local file, and
\* exc the exception that leaves the method ("none" when it returns).

\* __init__: use_local_storage is False when get_collections answers, and
\* True (with an empty embeddings_data) when the connection attempt raises
ManagerInit ==
    /\ use_local_storage' = ~remoteUp
    /\ embeddings_data' = <<>>

\* (mutant) create_collection that keeps a collection that exists
CreateIfMissing(local, ed, rc) ==
    IF local
    THEN {[ed |-> <<>>, rc |-> rc, exc |-> "none"]}
    ELSE {[ed |-> ed,
           rc |-> [exists |-> TRUE,
                   points |-> IF rc.exists THEN rc.points ELSE {}],
           exc |-> "none"],
          [ed |-> ed, rc |-> rc, exc |-> "StoreError"]}

\* create_collection
CreateOutcomes(local, ed, rc) ==
    IF local
    THEN {[ed |-> <<>>, rc |-> rc, exc |-> "none"]}
    ELSE {\* the collection is deleted if it exists, and created empty
          [ed |-> ed, rc |-> [exists |-> TRUE, points |-> {}], exc |-> "none"],
          \* get_collections or delete_collection raises
          [ed |-> ed, rc |-> rc, exc |-> "StoreError"],
          \* create_collection raises after the deletion
          [ed |-> ed, rc |-> NoCollection, exc |-> "StoreError"]}

\* a KeyError leaves _upload_chunks_local / _upload_chunks_qdrant before
\* anything is stored: while the first point is built, or at the log line
\* that reads doc['title']
UploadKeyError(doc, cs) ==
    \/ Len(cs) > 0 /\ ~(PayloadFields \subseteq DOMAIN doc)
    \/ "title" \notin DOMAIN doc

\* _upload_chunks_local
UploadLocalOutcomes(doc, cs, embeddings, ed, rc) ==
    IF UploadKeyError(doc, cs)
    THEN {[ed |-> ed, rc |-> rc, exc |-> "KeyError", wrote |-> 0]}
    ELSE {[ed |-> ed \o LocalPoints(doc, cs, embeddings), rc |-> rc,
           exc |-> "none", wrote |-> ZipLen(cs, embeddings)]}

\* _upload_chunks_qdrant: client.upsert raises when the collection does not
\* exist, and may raise on any call
UploadQdrantOutcomes(doc, cs, embeddings, ed, rc) ==
    IF UploadKeyError(doc, cs)
    THEN {[ed |-> ed, rc |-> rc, exc |-> "KeyError", wrote |-> 0]}
    ELSE {[ed |-> ed, rc |-> rc, exc |-> "StoreError", wrote |-> 0]}
           \cup (IF rc.exists
                 THEN {[ed |-> ed,
                        rc |-> [exists |-> TRUE,
                                points |-> Upsert(rc.points,
                                                  QdrantPoints(doc, cs, embeddings))],
                        exc |-> "none", wrote |-> ZipLen(cs, embeddings)]}
                 ELSE {})

\* upload_chunks
UploadOutcomes(doc, cs, embeddings, local, ed, rc) ==
    IF Len(cs) # Len(embeddings)
    THEN {[ed |-> ed, rc |-> rc, exc |-> "none", wrote |-> 0]}
    ELSE IF local
         THEN UploadLocalOutcomes(doc, cs, embeddings, ed, rc)
         ELSE UploadQdrantOutcomes(doc, cs, embeddings, ed, rc)

\* save_local_storage: the file after the call
SaveOutcome(local, ed, f) ==
    IF local /\ ed # <<>>
    THEN [exists |-> TRUE, points |-> ed]
    ELSE f

\* DocumentProcessor.create_embeddings: what model.encode returns, or its
\* exception.  The model is loaded by name at run time; upload_chunks tests
\* for a list whose length differs from the number of chunks, so such a list
\* (here one vector too few) is among the outcomes.
EncodeOutcomes(texts) ==
    IF texts = <<>>
    THEN {[vecs |-> <<>>, exc |-> "none"]}
    ELSE {[vecs |-> CreateEmbeddings(texts), exc |-> "none"],
          [vecs |-> Tail(CreateEmbeddings(texts)), exc |-> "none"],
          [vecs |-> <<>>, exc |-> "EmbeddingError"]}

\* the points of the backend in use
ActivePoints ==
    IF use_local_storage
    THEN {embeddings_data[k] : k \in 1..Len(embeddings_data)}
    ELSE remoteColl.points

----------------------------------------------------------------------------
(* main of process_embeddings.py *)

\* the data file is missing: log and return
MainNoData ==
    /\ mpc = "start"
    /\ ~dataFile.exists
    /\ mpc' = "done"
    /\ UNCHANGED <<documents, idx, total_chunks>>
    /\ UNCHANGED <<chunkVars, envVars, mgrVars, callVars, appVars>>

\* documents = json.load(f); processor and QdrantManager are constructed
MainSetup ==
    /\ mpc = "start"
    /\ dataFile.exists
    /\ documents' = dataFile.docs
    /\ ManagerInit
    /\ mpc' = "create"
    /\ UNCHANGED <<idx, total_chunks>>
    /\ UNCHANGED <<chunkVars, envVars, callVars, appVars>>

\* qdrant_manager.create_collection()
MainCreate ==
    /\ mpc = "create"
    /\ \E r \in CreateOutcomes(use_local_storage, embeddings_data, remoteColl) :
          /\ embeddings_data' = r.ed
          /\ remoteColl' = r.rc
          /\ exc' = r.exc
          /\ mpc' = IF r.exc = "none" THEN "loop" ELSE "raised"
    /\ created' = TRUE
    /\ upserted' = 0
    /\ lastCall' = "create_collection"
    /\ UNCHANGED <<documents, idx, total_chunks, use_local_storage, ncalls>>
    /\ UNCHANGED <<chunkVars, remoteUp, file, dataFile, appVars>>

\* the document of the current iteration
CurDoc == documents[idx]

\* doc['title'] of line 232 or doc["content"] of line 234 raises KeyError
MainDocKeyError ==
    /\ mpc = "loop" /\ idx <= Len(documents)
    /\ ("title" \notin DOMAIN CurDoc \/ "content" \notin DOMAIN CurDoc)
    /\ exc' = "KeyError"
    /\ mpc' = "raised"
    /\ UNCHANGED <<documents, idx, total_chunks, created, upserted, lastCall, ncalls>>
    /\ UNCHANGED <<chunkVars, envVars, mgrVars, appVars>>

\* chunks of the current document, with the processor's defaults
CurChunks == DefaultChunks(CurDoc)

\* if not chunks: warn and continue
MainDocSkip ==
    /\ mpc = "loop" /\ idx <= Len(documents)
    /\ "title" \in DOMAIN CurDoc /\ "content" \in DOMAIN CurDoc
    /\ CurChunks = <<>>
    /\ idx' = idx + 1
    /\ UNCHANGED <<mpc, documents, total_chunks>>
    /\ UNCHANGED <<chunkVars, envVars, mgrVars, callVars, appVars>>

\* processor.create_embeddings(chunks) raises
MainDocEmbedError ==
    /\ mpc = "loop" /\ idx <= Len(documents)
    /\ "title" \in DOMAIN CurDoc /\ "content" \in DOMAIN CurDoc
    /\ CurChunks # <<>>
    /\ \E e \in EncodeOutcomes(CurChunks) :
          /\ e.exc # "none"
          /\ exc' = e.exc
    /\ mpc' = "raised"
    /\ UNCHANGED <<documents, idx, total_chunks, created, upserted, lastCall, ncalls>>
    /\ UNCHANGED <<chunkVars, envVars, mgrVars, appVars>>

\* the rest of the iteration: embed, upload_chunks, total_chunks += len(chunks)
MainDocUpload ==
    /\ mpc = "loop" /\ idx <= Len(documents)
    /\ "title" \in DOMAIN CurDoc /\ "content" \in DOMAIN CurDoc
    /\ CurChunks # <<>>
    /\ \E e \in EncodeOutcomes(CurChunks) :
          /\ e.exc = "none"
          /\ \E r \in UploadOutcomes(CurDoc, CurChunks, e.vecs, use_local_storage,
                                     embeddings_data, remoteColl) :
                /\ embeddings_data' = r.ed
                /\ remoteColl' = r.rc
                /\ exc' = r.exc
                /\ upserted' = upserted + r.wrote
                /\ IF r.exc = "none"
                   THEN /\ total_chunks' = total_chunks + Len(CurChunks)
                        /\ idx' = idx + 1
                        /\ mpc' = "loop"
                   ELSE /\ mpc' = "raised"
                        /\ UNCHANGED <<total_chunks, idx>>
    /\ lastCall' = "upload_chunks"
    /\ UNCHANGED <<documents, use_local_storage, created, ncalls>>
    /\ UNCHANGED <<chunkVars, remoteUp, file, dataFile, appVars>>

\* the loop is over: the totals are printed and main returns
MainFinish ==
    /\ mpc = "loop" /\ idx > Len(documents)
    /\ mpc' = "done"
    /\ UNCHANGED <<documents, idx, total_chunks>>
    /\ UNCHANGED <<chunkVars, envVars, mgrVars, callVars, appVars>>

----------------------------------------------------------------------------
(* A caller of QdrantManager other than main: any sequence of calls *)

\* the documents such a caller uploads
ApiDocs == {DocA, DocB, DocKit, DocNoTitle}

\* (mutant) create_collection that falls back to local storage when the
\* service raises
ApiCreateFallsBack ==
    /\ mpc = "api" /\ ncalls < MaxCalls
    /\ \E r \in CreateOutcomes(use_local_storage, embeddings_data, remoteColl) :
          /\ embeddings_data' = r.ed
          /\ remoteColl' = r.rc
          /\ exc' = r.exc
          /\ use_local_storage' = (use_local_storage \/ r.exc # "none")
    /\ created' = TRUE
    /\ upserted' = 0
    /\ lastCall' = "create_collection"
    /\ ncalls' = ncalls + 1
    /\ UNCHANGED mainVars
    /\ UNCHANGED <<chunkVars, remoteUp, file, dataFile, appVars>>

ApiCreate ==
    /\ mpc = "api" /\ ncalls < MaxCalls
    /\ \E r \in CreateOutcomes(use_local_storage, embeddings_data, remoteColl) :
          /\ embeddings_data' = r.ed
          /\ remoteColl' = r.rc
          /\ exc' = r.exc
    /\ created' = TRUE
    /\ upserted' = 0
    /\ lastCall' = "create_collection"
    /\ ncalls' = ncalls + 1
    /\ UNCHANGED <<mainVars, use_local_storage>>
    /\ UNCHANGED <<chunkVars, remoteUp, file, dataFile, appVars>>

\* upload_chunks(doc, chunks, embeddings) with the chunks of doc and either
\* their embeddings or one embedding too few
ApiUpload ==
    /\ mpc = "api" /\ ncalls < MaxCalls
    /\ \E doc \in ApiDocs, short \in BOOLEAN :
          LET cs   == DefaultChunks(doc)
              embs == IF short /\ cs # <<>>
                      THEN Tail(CreateEmbeddings(cs))
                      ELSE CreateEmbeddings(cs)
          IN  \E r \in UploadOutcomes(doc, cs, embs, use_local_storage,
                                      embeddings_data, remoteColl) :
                 /\ embeddings_data' = r.ed
                 /\ remoteColl' = r.rc
                 /\ exc' = r.exc
                 /\ upserted' = upserted + r.wrote
    /\ lastCall' = "upload_chunks"
    /\ ncalls' = ncalls + 1
    /\ UNCHANGED <<mainVars, use_local_storage, created>>
    /\ UNCHANGED <<chunkVars, remoteUp, file, dataFile, appVars>>

ApiSave ==
    /\ mpc = "api" /\ ncalls < MaxCalls
    /\ file' = SaveOutcome(use_local_storage, embeddings_data, file)
    /\ exc' = "none"
    /\ lastCall' = "save_local_storage"
    /\ ncalls' = ncalls + 1
    /\ UNCHANGED <<mainVars, mgrVars, created, upserted>>
    /\ UNCHANGED <<chunkVars, remoteUp, remoteColl, dataFile, appVars>>

\* the calling process ends
ApiExit ==
    /\ mpc = "api"
    /\ mpc' = "done"
    /\ UNCHANGED <<documents, idx, total_chunks>>
    /\ UNCHANGED <<chunkVars, envVars, mgrVars, callVars, appVars>>

----------------------------------------------------------------------------
(* app.py: DisasterRAGApp and the query handling *)

\* values of GROQ_API_KEY: not set, the placeholder of .env.example, a key
GroqKeys == {"absent", "your_groq_api_key_here", "gsk_key"}

\* the ingestion process has ended
IngestOver == mpc \in {"done", "raised"}

\* DisasterRAGApp(): __init__ sets embedding_model, qdrant_client and
\* groq_client to None, never llm; setup_clients assigns llm only when the
\* key is set and is not the placeholder.  When loading the embedding model
\* raises, the except clause leaves every client as __init__ set it.
AppSetup ==
    /\ apc = "idle" /\ IngestOver
    /\ \E key \in GroqKeys, loads \in BOOLEAN :
          /\ groq_api_key' = key
          /\ IF loads
             THEN /\ embedding_model' = "model"
                  /\ qdrant_client' = "client"
                  /\ llm' = IF key \notin {"absent", "your_groq_api_key_here"}
                            THEN "ChatGroq" ELSE "unset"
             ELSE /\ embedding_model' = "None"
                  /\ qdrant_client' = "None"
                  /\ llm' = "unset"
    /\ apc' = "input"
    /\ UNCHANGED <<contexts, response, shown, llm_invoked, nqueries>>
    /\ UNCHANGED <<chunkVars, envVars, mgrVars, mainVars, callVars>>

\* the projection of a point that retrieve_context returns
Context(p) ==
    [content |-> p.payload.content, source |-> p.payload.source,
     title |-> p.payload.title, url |-> p.payload.url]

\* qdrant_client.search(limit=k): the k best points of the remote
\* collection, whichever they are; raises when the service does not answer
\* or the collection does not exist
SearchOutcomes(up, rc, k) ==
    IF ~up \/ ~rc.exists
    THEN {[exc |-> "StoreError", hits |-> {}]}
    ELSE {[exc |-> "none", hits |-> S] :
            S \in {T \in SUBSET rc.points :
                     Cardinality(T) = Min2(k, Cardinality(rc.points))}}

\* retrieve_context: every exception is caught and [] is returned
RetrieveOutcomes(model, client, up, rc, k) ==
    IF model = "None" \/ client = "None"
    THEN {{}}
    ELSE {IF s.exc = "none" THEN {Context(p) : p \in s.hits} ELSE {} :
            s \in SearchOutcomes(up, rc, k)}

\* generate_response: reading self.llm raises AttributeError when it was
\* never assigned; a falsy llm gives the configuration message; otherwise
\* llm.invoke answers, or raises and the error text is returned
GenerateOutcomes(l) ==
    IF l = "unset"
    THEN {[exc |-> "AttributeError", response |-> "none", invoked |-> FALSE]}
    ELSE IF l = "None"
    THEN {[exc |-> "none", response |-> "ConfigMessage", invoked |-> FALSE]}
    ELSE {[exc |-> "none", response |-> "Answer", invoked |-> TRUE],
          [exc |-> "none", response |-> "ErrorGeneratingResponse",
           invoked |-> TRUE]}

\* a query is entered: contexts = app.retrieve_context(query)
AppRetrieve ==
    /\ apc = "input" /\ nqueries < MaxQueries
    /\ contexts' \in RetrieveOutcomes(embedding_model, qdrant_client,
                                      remoteUp, remoteColl, RETRIEVER_K)
    /\ apc' = "retrieved"
    /\ response' = "none"
    /\ shown' = "none"
    /\ llm_invoked' = FALSE
    /\ nqueries' = nqueries + 1
    /\ UNCHANGED <<groq_api_key, llm, embedding_model, qdrant_client>>
    /\ UNCHANGED <<chunkVars, envVars, mgrVars, mainVars, callVars>>

\* if contexts: response = app.generate_response(query, contexts)
AppGenerate ==
    /\ apc = "retrieved" /\ contexts # {}
    /\ \E g \in GenerateOutcomes(llm) :
          /\ response' = g.response
          /\ llm_invoked' = g.invoked
          /\ shown' = IF g.exc = "none" THEN g.response ELSE g.exc
    /\ apc' = "input"
    /\ UNCHANGED <<groq_api_key, llm, embedding_model, qdrant_client, contexts,
                   nqueries>>
    /\ UNCHANGED <<chunkVars, envVars, mgrVars, mainVars, callVars>>

\* (mutant) the else branch asks the LLM all the same
AppGenerateWithoutContexts ==
    /\ apc = "retrieved" /\ contexts = {}
    /\ \E g \in GenerateOutcomes(llm) :
          /\ response' = g.response
          /\ llm_invoked' = g.invoked
          /\ shown' = IF g.exc = "none" THEN g.response ELSE g.exc
    /\ apc' = "input"
    /\ UNCHANGED <<groq_api_key, llm, embedding_model, qdrant_client, contexts,
                   nqueries>>
    /\ UNCHANGED <<chunkVars, envVars, mgrVars, mainVars, callVars>>

\* else: the warning that no relevant information was found
AppNoInfo ==
    /\ apc = "retrieved" /\ contexts = {}
    /\ shown' = "NoRelevantInformation"
    /\ apc' = "input"
    /\ UNCHANGED <<groq_api_key, llm, embedding_model, qdrant_client, contexts,
                   response, llm_invoked, nqueries>>
    /\ UNCHANGED <<chunkVars, envVars, mgrVars, mainVars, callVars>>

----------------------------------------------------------------------------
(* Specifications *)

RECURSIVE SeqsUpTo(_, _)
\* the sequences of at most n distinct elements of S
SeqsUpTo(S, n) ==
    IF n = 0 THEN {<<>>}
    ELSE LET shorter == SeqsUpTo(S, n - 1)
         IN  shorter \cup
             {Append(q, x) : q \in {r \in shorter : Len(r) = n - 1},
                             x \in S}

Range(q) == {q[k] : k \in 1..Len(q)}

\* data files: records with distinct urls
Corpora == {q \in SeqsUpTo(DocPool, MaxDocs) : Cardinality(Range(q)) = Len(q)}

\* the ingestion program followed by the app
Init ==
    /\ ChunkIdle /\ NothingCalled /\ AppIdle
    /\ remoteUp \in BOOLEAN
    /\ remoteColl \in {NoCollection, OldCollection}
    /\ file \in {NoFile, OldFile}
    /\ dataFile \in {[exists |-> FALSE, docs |-> <<>>]}
                      \cup {[exists |-> TRUE, docs |-> q] : q \in Corpora}
    /\ mpc = "start"

Next ==
    \/ MainNoData \/ MainSetup \/ MainCreate
    \/ MainDocKeyError \/ MainDocSkip \/ MainDocEmbedError \/ MainDocUpload
    \/ MainFinish
    \/ AppSetup \/ AppRetrieve \/ AppGenerate \/ AppNoInfo

Spec == Init /\ [][Next]_vars

\* a QdrantManager driven by an arbitrary caller, followed by the app
InitAPI ==
    /\ ChunkIdle /\ AppIdle
    /\ remoteUp \in BOOLEAN
    /\ remoteColl \in {NoCollection, OldCollection}
    /\ file \in {NoFile, OldFile}
    /\ dataFile = [exists |-> FALSE, docs |-> <<>>]
    /\ use_local_storage = ~remoteUp /\ embeddings_data = <<>>
    /\ documents = <<>> /\ idx = 1 /\ total_chunks = 0
    /\ exc = "none" /\ created = FALSE /\ upserted = 0
    /\ lastCall = "none" /\ ncalls = 0
    /\ mpc = "api"

NextAPI ==
    \/ ApiCreate \/ ApiUpload \/ ApiSave \/ ApiExit
    \/ AppSetup \/ AppRetrieve \/ AppGenerate \/ AppNoInfo

SpecAPI == InitAPI /\ [][NextAPI]_vars

----------------------------------------------------------------------------
(* Properties of the store, the ingestion run and the query handling *)

LocalIds == [k \in 1..Len(embeddings_data) |-> embeddings_data[k].id]

\* C2: whichever backend is active, the store holds at most one point per
\* id after any sequence of upload_chunks calls (an upload of points whose
\* ids are stored already overwrites them, it does not append).
C2_AtMostOnePointPerId ==
    /\ use_local_storage =>
          \A i \in 1..Len(embeddings_data), j \in 1..Len(embeddings_data) :
              i # j => LocalIds[i] # LocalIds[j]
    /\ ~use_local_storage =>
          \A p \in remoteColl.points, q \in remoteColl.points :
              p.id = q.id => p = q

\* every point held in memory, on the remote service or in the local file
AllStoredPoints == Range(embeddings_data) \cup remoteColl.points \cup Range(file.points)

SameOrigin(p, q) ==
    /\ p.payload.url = q.payload.url
    /\ p.payload.chunk_index = q.payload.chunk_index

\* C3: the id of a point is a function of (url, chunk index) alone, the
\* same in Remote and LocalFallback mode, and points of different
\* (url, chunk index) never share the key string 'url#index' or the id.
C3_IdFromUrlAndIndex ==
    \A p \in AllStoredPoints, q \in AllStoredPoints :
        /\ (p.id = q.id) <=> SameOrigin(p, q)
        /\ (p.payload.original_id = q.payload.original_id) <=> SameOrigin(p, q)

\* the same document was uploaded twice to the local buffer and got the
\* same ids, next to a point of another chunk index and one of another url
C3_Witness ==
    /\ use_local_storage
    /\ \E i \in 1..Len(embeddings_data), j \in 1..Len(embeddings_data) :
          /\ i < j
          /\ LocalIds[i] = LocalIds[j]
          /\ embeddings_data[i].payload.total_chunks = 2
    /\ \E p \in AllStoredPoints, q \in AllStoredPoints :
          p.payload.url = q.payload.url /\ p.id # q.id
    /\ \E p \in AllStoredPoints, q \in AllStoredPoints :
          p.payload.url # q.payload.url

\* C5: with GROQ_API_KEY absent or the placeholder, generate_response on a
\* non-empty list of contexts returns the configuration message without
\* raising and without invoking the LLM.
C5_ConfigMessageWithoutKey ==
    (/\ groq_api_key \in {"absent", "your_groq_api_key_here"}
     /\ apc = "input" /\ nqueries > 0 /\ contexts # {})
        => (shown = "ConfigMessage" /\ response = "ConfigMessage" /\ ~llm_invoked)

\* C6: in LocalFallback mode, when a full run of main has completed, the
\* persisted file contains every point upserted during the run.
C6_PersistedAfterRun ==
    (mpc = "done" /\ created /\ use_local_storage)
        => \A p \in Range(embeddings_data) :
              file.exists /\ p \in Range(file.points)

\* C7: in LocalFallback mode, after save_local_storage the persisted file
\* counts exactly the points upserted since the last create_collection,
\* also when that number is zero and an earlier run left a file.
C7_SavedCountIsUpserted ==
    (use_local_storage /\ lastCall = "save_local_storage")
        => /\ file.exists => Len(file.points) = upserted
           /\ upserted > 0 => file.exists

\* C8: with the remote store unreachable and points ingested through the
\* LocalFallback path, a query returns some of those points, not nothing.
C8_SearchOnActiveBackend ==
    (/\ apc = "retrieved" /\ embedding_model = "model"
     /\ ~remoteUp /\ use_local_storage /\ embeddings_data # <<>>)
        => contexts # {}

\* C9: upload_chunks or save_local_storage called before create_collection
\* fails and changes nothing, in both modes (the claim names the error
\* NotInitialized; any exception is accepted here as the failure).
C9_FailsBeforeCreate ==
    (lastCall \in {"upload_chunks", "save_local_storage"} /\ ~created)
        => (exc # "none" /\ upserted = 0)

\* C10: a malformed document or a failed embedding call does not stop the
\* ingestion run: only a store-level failure ends main with an exception.
C10_DocumentFailuresIsolated ==
    mpc = "raised" => exc = "StoreError"


\* C13 as stated: when an ingestion run has ended, the reported total of
\* chunks is the number of points written to the store during the run, for
\* every corpus, also when an upload was aborted on a count mismatch or a
\* document was skipped for having no chunk.
C13_TotalIsPointsWritten ==
    mpc = "done" => total_chunks = upserted

\* C14: the LLM is invoked for a query only when retrieval returned at
\* least one context; a query whose retrieval returned no context ends with
\* the 'no relevant information' message, no response and no LLM call.
C14_LlmOnlyWithContexts ==
    /\ llm_invoked => contexts # {}
    /\ (apc = "input" /\ nqueries > 0 /\ contexts = {})
           => (shown = "NoRelevantInformation" /\ response = "none" /\ ~llm_invoked)

\* a query was answered with the message although the LLM is configured and
\* the search itself succeeded, on an existing collection without points
C14_Witness ==
    /\ apc = "input" /\ nqueries > 0 /\ contexts = {}
    /\ shown = "NoRelevantInformation"
    /\ llm = "ChatGroq" /\ embedding_model = "model"
    /\ remoteUp /\ remoteColl.exists /\ remoteColl.points = {}

\* C16: the backend mode is the one chosen by QdrantManager.__init__
\* (LocalFallback exactly when the connection failed) and no call of
\* create_collection, upload_chunks or save_local_storage, failed or not,
\* changes it; a manager in LocalFallback mode never touches the remote
\* collection, and one in Remote mode never touches the local buffer or file.
C16_ModeIsPermanent ==
    [][/\ use_local_storage = ~remoteUp
       /\ use_local_storage' = use_local_storage
       /\ use_local_storage => remoteColl' = remoteColl
       /\ ~use_local_storage => (embeddings_data' = embeddings_data /\ file' = file)]_vars

\* a manager in Remote mode is still in Remote mode after a failed
\* create_collection followed by a failed upload_chunks
C16_Witness ==
    /\ mpc = "api" /\ ~use_local_storage /\ remoteUp
    /\ created /\ ~remoteColl.exists
    /\ lastCall = "upload_chunks" /\ exc = "StoreError" /\ ncalls >= 2

\* what an earlier run left in the stores
EarlierPoints == Range(OldLocalPoints) \cup OldCollection.points

\* C17: in a run of main create_collection is executed once, before the
\* first upload_chunks and never after one; right after it the
\* store of the active mode (the remote collection, or in LocalFallback the
\* buffer used in its place) holds no point, and when the run has completed
\* that store holds exactly the points upserted in this run, all of them of
\* documents of this run and none of an earlier run.
C17_FullReplaceOncePerRun ==
    /\ mpc = "loop" => created
    /\ lastCall = "create_collection" => (total_chunks = 0 /\ upserted = 0)
    /\ (lastCall = "create_collection" /\ exc = "none") => ActivePoints = {}
    /\ (mpc = "done" /\ created)
          => /\ Cardinality(ActivePoints) = upserted
             /\ ActivePoints \cap EarlierPoints = {}
             /\ \A p \in ActivePoints :
                   \E k \in 1..Len(documents) : documents[k]["url"] = p.payload.url

\* a completed run in Remote mode that stored the two chunks of one
\* document and the chunk of another
C17_Witness ==
    /\ mpc = "done" /\ created /\ ~use_local_storage
    /\ Len(documents) = 2 /\ upserted = 3
    /\ Cardinality(remoteColl.points) = 3

\* the stored points of the document with this url
PointsOf(url) == {p \in ActivePoints : p.payload.url = url}

\* C19: the points stored for a processed document with n >= 1 chunks are
\* n points with chunk_index 0..n-1, the point of index i holding the i-th
\* chunk as content and total_chunks = n, stored in that order; a document
\* with no chunk has no point and no embedding call is made for it.  (A
\* document has no point either when its upload was not carried out; in a
\* run without such an upload every document with chunks has its points.)
C19_ChunkIndexInDocumentOrder ==
    /\ \A k \in 1..(idx - 1) :
          LET doc == documents[k]
              cs  == DefaultChunks(doc)
              n   == Len(cs)
              P   == PointsOf(doc["url"])
          IN  /\ n = 0 => P = {}
              /\ (n > 0 /\ upserted = total_chunks) => P # {}
              /\ P # {} =>
                    /\ Cardinality(P) = n
                    /\ {p.payload.chunk_index : p \in P} = 0..(n - 1)
                    /\ \A p \in P :
                          /\ p.payload.total_chunks = n
                          /\ p.payload.content = cs[p.payload.chunk_index + 1]
    /\ use_local_storage =>
          \A i \in 1..Len(embeddings_data), j \in 1..Len(embeddings_data) :
              (i < j /\ embeddings_data[i].payload.url = embeddings_data[j].payload.url)
                  => embeddings_data[i].payload.chunk_index
                        < embeddings_data[j].payload.chunk_index
    /\ (mpc = "raised" /\ exc = "EmbeddingError")
          => DefaultChunks(documents[idx]) # <<>>

\* a completed run over the document without chunks and the document with
\* two chunks, whose two points are stored
C19_Witness ==
    /\ mpc = "done" /\ documents = <<DocKit, DocA>>
    /\ upserted = 2 /\ total_chunks = 2
    /\ Cardinality(PointsOf(DocA["url"])) = 2
    /\ PointsOf(DocKit["url"]) = {}
====
